---------------------------- MODULE Spec2Model ----------------------------
(***************************************************************************)
(* Interview Assistant: the orchestration layer of the Electron main       *)
(* process (screenshot queue, single-flight flag, reset), the audio        *)
(* recorder service, and the listeners of the renderer (App) that keep the *)
(* displayed queue and the history.                                        *)
(*                                                                         *)
(* Scheduling: one event loop.  A handler runs without interruption up to  *)
(* its next await on I/O (subprocess, file, network); each action below is *)
(* one such run-to-suspension segment of a handler.  webContents.send is   *)
(* delivered in order on one channel and the renderer's listeners touch    *)
(* renderer state only, so a listener is applied in the step that sends.   *)
(***************************************************************************)
EXTENDS Integers, Sequences, FiniteSets, TLC

\* ------------------------------------------------------------------ bounds
MaxIntents == 5      \* intents that start work (take, process, reset) in one run
MaxToggles == 3      \* recorder requests (toggle, start, stop) in one run
MaxChunks == 2       \* text chunks one audio stream yields
MaxText == 5         \* symbols in one provider response text
MaxSaves == 2        \* save-config requests in one run
MaxSessionToggles == 4  \* toggle-recording intents in one run of the recorder alone

\* ------------------------------------------------------- program constants
MAX_SCREENSHOTS == 4

VARIABLES
  \* main process (src/unnamed/part_000)
  config,            \* the Config singleton: provider and whether its client is initialised
  screenshotQueue,   \* sequence of screenshot ids, in capture order
  isProcessing,      \* the single-flight flag
  clock,             \* Date.now() of the last screenshot: ids are clock values
  takes,             \* handleTakeScreenshot invocations suspended in the capture
  jobs,              \* handleProcessScreenshots invocations suspended in the adapter
  nJobs,             \* process-queue intents accepted so far (job ids)
  resets,            \* reset invocations in flight, by origin and position
  budget,            \* intents the run may still issue
  \* recorder service (src/src/services/audioRecorder.ts)
  isRecording,       \* AudioRecorderService.isRecording
  recordingProcess,  \* the ChildProcess handle held, 0 for null
  outputPath,        \* n for recordings/question-n.wav, 0 for ''
  questionCounter,
  procs,             \* every recording subprocess spawned, by id, with its state
  calls,             \* recorder requests in flight: the method's and its caller's position
  nCalls,            \* recorder requests so far (their ids)
  \* renderer (src/src/preload.ts, App)
  screenshots,       \* App state `screenshots`
  history,           \* App state `history`, newest first
  streamingResponse, \* App state `streamingResponse`: the chunk texts appended, in order
  \* configuration (src/unnamed/part_000, saveConfig)
  store,             \* the Config persisted, the one in memory, and what each
                     \* adapter and the recorder were last configured from
  saves,             \* saveConfig invocations suspended in the file write
  \* an adapter's parse of one provider response
  parse,             \* the adapter, the response text and, once parsed, the outcome
  \* observation of the last step
  last,              \* which handler segment ran last, and what it saw on entry
  emitted            \* the events that segment sent to the renderer, in order

shotVars == <<config, screenshotQueue, isProcessing, clock, takes, jobs, nJobs,
              resets, budget, screenshots, history, streamingResponse, last,
              emitted>>

recVars == <<isRecording, recordingProcess, outputPath, questionCounter, procs,
             calls, nCalls>>

cfgVars == <<store, saves>>

vars == <<shotVars, recVars, parse, cfgVars>>

\* loadConfig: null, or a Config whose provider's client was initialised only
\* when the matching API key was present.
Configs ==
  { [provider |-> "none",   ready |-> FALSE],
    [provider |-> "openai", ready |-> TRUE],
    [provider |-> "openai", ready |-> FALSE],
    [provider |-> "gemini", ready |-> TRUE],
    [provider |-> "gemini", ready |-> FALSE] }

\* One event on the main -> renderer channel.
Event(ch, kind, n) == [ch |-> ch, kind |-> kind, n |-> n, msg |-> ""]

\* The payloads of processing-complete.
NoConfigResult == Event("processing-complete", "noconfig", 0)
CancelledResult == Event("processing-complete", "cancelled", 0)
SolutionResult(j) == Event("processing-complete", "solution", j)
ErrorResult(j, msg) ==
  [Event("processing-complete", "error", j) EXCEPT !.msg = msg]
\* The adapter returned an object that lacks one of the four fields.
IncompleteResult(j) == Event("processing-complete", "incomplete", j)

\* The record of a step: the handler segment, the job or request it belongs
\* to, what the environment gave it (input), what it came to (outcome) and
\* the file path it returned to its caller (0 for none).
Step(op) == [op |-> op, job |-> 0, outcome |-> "", origin |-> "", input |-> "",
             path |-> 0, text |-> <<>>, arg |-> <<>>]


\* -------------------------------------------------------------- renderer
\* The listeners are registered once, by the effect that runs after the first
\* render (useEffect with an empty dependency list).  A listener that reads
\* the state binding `screenshots` reads the binding of that first render,
\* which is the initial state of useState: the empty list.
EffectScreenshots == <<>>

\* The history entry onProcessingComplete builds: the parsed result and the
\* `screenshots` of the listener's closure.
HistoryItem(ev) ==
  [type |-> "screenshot", result |-> [kind |-> ev.kind, n |-> ev.n, msg |-> ev.msg],
   screenshots |-> EffectScreenshots]

\* The same for `streamingResponse`: the listeners read the '' of useState.
EffectStreamingResponse == <<>>

\* A transcript is the sequence of the chunk texts appended to it; a chunk
\* text is of kind "text" (it has a non-whitespace character) or "blank"
\* (whitespace only).  String.trim drops the whitespace at both ends.
RECURSIVE TrimStart(_)
TrimStart(t) ==
  IF t = <<>> \/ Head(t).kind # "blank" THEN t ELSE TrimStart(Tail(t))

RECURSIVE TrimEnd(_)
TrimEnd(t) ==
  IF t = <<>> \/ t[Len(t)].kind # "blank" THEN t
  ELSE TrimEnd(SubSeq(t, 1, Len(t) - 1))

Trim(t) == TrimEnd(TrimStart(t))

\* The history entry onAudioProcessingComplete builds from a transcript.
AudioHistoryItem(t) == [type |-> "audio", result |-> t]

\* Weakened insertion: the new item put after the existing ones.
AddToHistoryAtEnd(prev, item) == Append(prev, item)

\* setHistory(prev => [historyItem, ...prev]).
AddToHistory(prev, item) == <<item>> \o prev

\* One listener run on the renderer state
\* ui = [screenshots, history, streamingResponse].
Listener(ui, ev) ==
  CASE ev.ch = "screenshot-taken" ->
         [ui EXCEPT !.screenshots = Append(@, ev.n)]
    [] ev.ch = "processing-complete" ->
         [ui EXCEPT !.history = AddToHistory(@, HistoryItem(ev))]
    [] ev.ch = "queue-reset" ->
         [ui EXCEPT !.screenshots = <<>>]
    [] ev.ch = "recording-toggled" ->
         IF ev.kind = "recording" THEN [ui EXCEPT !.streamingResponse = <<>>] ELSE ui
    [] ev.ch = "audio-processing-started" ->
         [ui EXCEPT !.streamingResponse = <<>>]
    [] ev.ch = "audio-stream-chunk" ->
         [ui EXCEPT !.streamingResponse = Append(@, [kind |-> ev.kind, n |-> ev.n])]
    [] ev.ch = "audio-processing-complete" ->
         IF Trim(EffectStreamingResponse) # <<>>
           THEN [ui EXCEPT !.history =
                   AddToHistory(@, AudioHistoryItem(EffectStreamingResponse))]
           ELSE ui
    [] ev.ch = "audio-queue-reset" ->
         [ui EXCEPT !.streamingResponse = <<>>]
    [] OTHER -> ui

RECURSIVE Deliver(_, _)
Deliver(ui, evs) ==
  IF evs = <<>> THEN ui ELSE Deliver(Listener(ui, Head(evs)), Tail(evs))

\* webContents.send of evs: the events are recorded and their listeners run;
\* `clear` when App.handleReset then resumes from its await of resetQueue and
\* empties the streaming transcript.
SendThen(evs, clear) ==
  LET ui == Deliver([screenshots |-> screenshots, history |-> history,
                     streamingResponse |-> streamingResponse], evs)
  IN /\ emitted' = evs
     /\ screenshots' = ui.screenshots
     /\ history' = ui.history
     /\ streamingResponse' = IF clear THEN <<>> ELSE ui.streamingResponse

Send(evs) == SendThen(evs, FALSE)

\* --------------------------------------------------- handleTakeScreenshot
AtCapacity == Len(screenshotQueue) >= MAX_SCREENSHOTS

\* Entry, up to the first await (the 100 ms timer before the capture).
TakeScreenshot ==
  /\ last' = [Step("take") EXCEPT !.outcome = IF AtCapacity THEN "rejected" ELSE "accepted"]
  /\ IF AtCapacity
       THEN UNCHANGED takes
       ELSE /\ budget > 0
            /\ takes' = takes + 1
  /\ budget' = IF AtCapacity THEN budget ELSE budget - 1
  /\ Send(<<>>)
  /\ UNCHANGED <<config, screenshotQueue, isProcessing, clock, jobs, nJobs,
                 resets>>
  /\ UNCHANGED <<recVars, parse, cfgVars>>

\* The capture and the file write succeeded: push and announce.
TakeDone ==
  /\ takes > 0
  /\ takes' = takes - 1
  /\ clock' = clock + 1
  /\ screenshotQueue' = Append(screenshotQueue, clock + 1)
  /\ last' = Step("takeDone")
  /\ Send(<<Event("screenshot-taken", "", clock + 1)>>)
  /\ UNCHANGED <<config, isProcessing, jobs, nJobs, resets, budget>>
  /\ UNCHANGED <<recVars, parse, cfgVars>>

\* The capture threw: logged, nothing else.
TakeFail ==
  /\ takes > 0
  /\ takes' = takes - 1
  /\ last' = Step("takeFail")
  /\ Send(<<>>)
  /\ UNCHANGED <<config, screenshotQueue, isProcessing, clock, jobs, nJobs,
                 resets, budget>>
  /\ UNCHANGED <<recVars, parse, cfgVars>>

\* ------------------------------------------------- the adapters' parsing
\* A provider response text, as a sequence of symbols: prose, the braces, and
\* the member list of an object, either with the four fields of a solution
\* all non-empty ("full") or with one of them missing or empty ("partial").
Symbols == {"prose", "{", "}", "full", "partial"}

RECURSIVE TextsOfLength(_)
TextsOfLength(n) ==
  IF n = 0 THEN {<<>>}
  ELSE {Append(t, x) : t \in TextsOfLength(n - 1), x \in Symbols}

RECURSIVE TextsUpTo(_)
TextsUpTo(n) ==
  IF n = 0 THEN TextsOfLength(0) ELSE TextsUpTo(n - 1) \cup TextsOfLength(n)

Success(fields) == [ok |-> TRUE, fields |-> fields, error |-> ""]
Failure(error) == [ok |-> FALSE, fields |-> "none", error |-> error]

\* JSON.parse of a span: an object with no member, or with one member list.
JsonParse(span) ==
  CASE span = <<"{", "}">> -> Success("none")
    [] span = <<"{", "full", "}">> -> Success("full")
    [] span = <<"{", "partial", "}">> -> Success("partial")
    [] OTHER -> Failure("SyntaxError")

\* text.match(/\{[\s\S]*\}/): from the first opening brace, greedily, to the
\* last closing brace; <<>> for no match.
RegexMatch(t) ==
  LET opens == {i \in 1..Len(t) : t[i] = "{"}
      closes == {i \in 1..Len(t) : t[i] = "}"}
  IN IF opens = {} THEN <<>>
     ELSE LET a == CHOOSE i \in opens : \A k \in opens : i <= k
          IN IF \E i \in closes : i > a
               THEN SubSeq(t, a, CHOOSE i \in closes : \A k \in closes : k <= i)
               ELSE <<>>

\* The test of the four fields.
ValidStructure(fields) == fields = "full"

\* processImages, from the response text to its return or throw.
GeminiParse(t) ==
  LET m == RegexMatch(t)
  IN IF m = <<>> THEN Failure("NoJson")
     ELSE IF ~JsonParse(m).ok THEN Failure("SyntaxError")
     ELSE IF ~ValidStructure(JsonParse(m).fields) THEN Failure("InvalidStructure")
     ELSE Success("full")

\* processScreenshots, from the message content to its return or throw.
OpenAIParse(t) == JsonParse(IF t = <<>> THEN <<"{", "}">> ELSE t)

AdapterParse(adapter, t) ==
  IF adapter = "openai" THEN OpenAIParse(t) ELSE GeminiParse(t)

\* Not parsed yet.
Pending == Failure("pending")

\* One response is parsed.
ParseResponse ==
  /\ parse.result = Pending
  /\ parse' = [parse EXCEPT !.result = AdapterParse(parse.adapter, parse.text)]
  /\ UNCHANGED <<shotVars, recVars, cfgVars>>

\* ------------------------------------------------ handleProcessScreenshots
\* Weakened guards: the entry guard of handleProcessScreenshots without its
\* single-flight half, and without its empty-queue half.
ProcessRejectedOnlyWhenEmpty == Len(screenshotQueue) = 0

ProcessRejectedOnlyWhenBusy == isProcessing

ProcessRejected == isProcessing \/ Len(screenshotQueue) = 0

\* Weakened test: the missing Config not noticed.
NoConfigIgnored == FALSE

NoConfig == config.provider = "none"

\* The check made when the adapter call has returned or thrown.
Cancelled == ~isProcessing

\* A handler of reset-all is suspended in its deletion loop.
ResetSuspended == resets["hotkey"] + resets["shell"] > 0

\* The job a provider's adapter starts: the OpenAI-style adapter receives the
\* queue array itself and reads its files one await at a time; the
\* Gemini-style adapter receives previews mapped from the queue at the call.
\* `queued` keeps the queue as it was when the request was accepted and
\* `midReset` whether a reset-all was then in its deletion loop.
NewJob(id) ==
  IF config.provider = "openai"
    THEN [id |-> id, prov |-> "openai", pc |-> "reading", live |-> TRUE,
          arr |-> <<>>, cancelled |-> FALSE, queued |-> screenshotQueue,
          midReset |-> ResetSuspended]
    ELSE [id |-> id, prov |-> config.provider, pc |-> "calling", live |-> FALSE,
          arr |-> screenshotQueue, cancelled |-> FALSE, queued |-> screenshotQueue,
          midReset |-> ResetSuspended]

\* Entry, up to the first await inside the adapter (or to the end).
ProcessQueue ==
  /\ last' = [Step("process") EXCEPT
                !.job = IF ProcessRejected \/ NoConfig THEN 0 ELSE nJobs + 1,
                !.outcome = IF ProcessRejected THEN "rejected"
                            ELSE IF NoConfig THEN "noconfig"
                            ELSE IF ~config.ready THEN "threw" ELSE "accepted"]
  /\ IF ProcessRejected
       THEN /\ Send(<<>>)
            /\ UNCHANGED <<isProcessing, jobs, nJobs, budget>>
       ELSE IF NoConfig
       THEN /\ budget > 0
            /\ budget' = budget - 1
            /\ Send(<<NoConfigResult>>)
            /\ UNCHANGED <<isProcessing, jobs, nJobs>>
       ELSE /\ budget > 0
            /\ budget' = budget - 1
            /\ nJobs' = nJobs + 1
            /\ IF config.ready
                 THEN \* suspended in the adapter
                      /\ isProcessing' = TRUE
                      /\ jobs' = jobs \cup {NewJob(nJobs + 1)}
                      /\ Send(<<Event("processing-started", "", 0)>>)
                 ELSE \* the adapter throws before any await: catch, finally
                      /\ isProcessing' = FALSE
                      /\ jobs' = jobs
                      /\ Send(<<Event("processing-started", "", 0),
                                ErrorResult(nJobs + 1, "NotInitialised")>>)
  /\ UNCHANGED <<config, screenshotQueue, clock, takes, resets>>
  /\ UNCHANGED <<recVars, parse, cfgVars>>

\* OpenAI-style adapter: every file of the array has been read and the
\* request is sent.  The loop walks the array it was given, so it sees every
\* push made to that array before it ends.
JobRead(j) ==
  /\ j.pc = "reading"
  /\ jobs' = (jobs \ {j}) \cup
             {[j EXCEPT !.pc = "calling", !.live = FALSE,
                        !.arr = IF j.live THEN screenshotQueue ELSE j.arr]}
  /\ last' = [Step("jobRead") EXCEPT !.job = j.id]
  /\ Send(<<>>)
  /\ UNCHANGED <<config, screenshotQueue, isProcessing, clock, takes, nJobs,
                 resets, budget>>
  /\ UNCHANGED <<recVars, parse, cfgVars>>

\* The responses tried in the flow: a clean object, one wrapped in prose,
\* one lacking a field, and prose with no object.
SampleTexts ==
  { <<"{", "full", "}">>,
    <<"prose", "{", "full", "}", "prose">>,
    <<"{", "partial", "}">>,
    <<"prose">> }

\* What the adapter call comes to: a throw before or in the request (a file
\* read, the transport), or the adapter's parse of the response text.
AdapterResult(j, threw, text) ==
  IF threw THEN Failure("ProviderError") ELSE AdapterParse(j.prov, text)

\* What the handler sends when the adapter's promise settles with r.
Completion(j, r) ==
  IF Cancelled THEN <<>>
  ELSE IF ~r.ok THEN <<ErrorResult(j.id, r.error)>>
  ELSE IF r.fields = "full" THEN <<SolutionResult(j.id)>>
  ELSE <<IncompleteResult(j.id)>>

\* Weakened cleanup: the flag cleared on the success path only.
FlagKeptOnFailure(r) == IF r.ok THEN FALSE ELSE isProcessing

\* The flag after the finally block, whatever the adapter call came to.
FlagAfterReturn(r) == FALSE

\* Weakened frame: the batch the job was given taken off the queue when
\* its adapter call returns.
QueueWithoutBatch(j) ==
  SelectSeq(screenshotQueue, LAMBDA s : \A i \in 1..Len(j.arr) : j.arr[i] # s)

\* The queue once the adapter call of job j has returned:
\* handleProcessScreenshots reads screenshotQueue and assigns nothing to it.
QueueAfterJob(j) == screenshotQueue

\* The adapter's promise settles: a response (only once the request was sent)
\* or a throw.  try / catch / finally.
JobReturn(j, threw, text) ==
  /\ ~threw => j.pc = "calling"
  /\ threw => text = <<>>
  /\ jobs' = jobs \ {j}
  /\ isProcessing' = FlagAfterReturn(AdapterResult(j, threw, text))
  /\ last' = [Step("jobReturn") EXCEPT
                !.job = j.id,
                !.input = IF threw THEN "throw" ELSE "response",
                !.text = text,
                !.outcome = IF AdapterResult(j, threw, text).ok THEN "ok" ELSE "err"]
  /\ Send(Completion(j, AdapterResult(j, threw, text)))
  /\ screenshotQueue' = QueueAfterJob(j)
  /\ UNCHANGED <<config, clock, takes, nJobs, resets, budget>>
  /\ UNCHANGED <<recVars, parse, cfgVars>>

\* -------------------------------------------------------- handleResetQueue
ResetOrigins == {"hotkey", "shell"}
ResetPositions == {"hotkey", "shell", "resetAudio", "resetAudioReply", "audioButton"}

\* What the cancellation branch sends.
CancelEvents == IF isProcessing THEN <<CancelledResult>> ELSE <<>>

\* screenshotQueue = []: a job still holding the old array keeps its contents.
Detach(js) ==
  {IF j.live THEN [j EXCEPT !.live = FALSE, !.arr = screenshotQueue] ELSE j : j \in js}

\* The handler's last statements, and where a reset of that origin goes next:
\* the hotkey's is over, the shell's App.handleReset resumes and invokes
\* reset-audio-queue.
AfterMainReset(origin, r) ==
  IF origin = "shell" THEN [r EXCEPT !["resetAudio"] = @ + 1] ELSE r

\* Entry: cancel, then the deletion loop, which awaits once per queued file;
\* with nothing queued the handler runs to its end at once.
ResetQueue(origin) ==
  /\ budget > 0
  /\ budget' = budget - 1
  /\ isProcessing' = FALSE
  /\ IF Len(screenshotQueue) = 0
       THEN /\ screenshotQueue' = <<>>
            /\ jobs' = Detach({[j EXCEPT !.cancelled = TRUE] : j \in jobs})
            /\ resets' = AfterMainReset(origin, resets)
            /\ SendThen(CancelEvents \o <<Event("queue-reset", "", 0)>>,
                        origin = "shell")
       ELSE /\ screenshotQueue' = screenshotQueue
            /\ jobs' = {[j EXCEPT !.cancelled = TRUE] : j \in jobs}
            /\ resets' = [resets EXCEPT ![origin] = @ + 1]
            /\ Send(CancelEvents)
  /\ last' = [Step("reset") EXCEPT !.origin = origin,
                !.outcome = IF Len(screenshotQueue) = 0 THEN "done" ELSE "suspended"]
  /\ UNCHANGED <<config, clock, takes, nJobs>>
  /\ UNCHANGED <<recVars, parse, cfgVars>>

\* The files the deletion loop has walked over when it ends: the array is
\* iterated in place, so files queued during the loop are included.
Unlinked == {screenshotQueue[i] : i \in 1..Len(screenshotQueue)}

\* The deletion loop is over: unlink was tried on every queued file and
\* threw for those in `failed`, which the catch inside the loop logged.
ResetFinish(origin, failed) ==
  /\ resets[origin] > 0
  /\ failed \subseteq Unlinked
  /\ screenshotQueue' = <<>>
  /\ jobs' = Detach(jobs)
  /\ resets' = AfterMainReset(origin, [resets EXCEPT ![origin] = @ - 1])
  /\ last' = [Step("resetFinish") EXCEPT !.origin = origin, !.outcome = "done",
                !.input = IF failed = {} THEN "unlinked" ELSE "unlinkFailed"]
  /\ SendThen(<<Event("queue-reset", "", 0)>>, origin = "shell")
  /\ UNCHANGED <<config, isProcessing, clock, takes, nJobs, budget>>
  /\ UNCHANGED <<recVars, parse, cfgVars>>

\* The shell's handlers that invoke reset-audio-queue, by the position they
\* wait at: App.handleReset and App.handleResetAudio.
AudioResetCallers == {"resetAudio", "audioButton"}

\* App.handleResetAudio up to its await: the transcript is emptied and
\* reset-audio-queue invoked.
ResetAudio ==
  /\ budget > 0
  /\ budget' = budget - 1
  /\ resets' = [resets EXCEPT !["audioButton"] = @ + 1]
  /\ last' = [Step("resetAudioButton") EXCEPT !.origin = "shell"]
  /\ emitted' = <<>>
  /\ streamingResponse' = <<>>
  /\ UNCHANGED <<config, screenshotQueue, isProcessing, clock, takes, jobs, nJobs,
                 screenshots, history>>
  /\ UNCHANGED <<recVars, parse, cfgVars>>

\* handleResetAudioQueue, invoked by App.handleReset (which goes on to clear
\* the history when the call returns) or by App.handleResetAudio (which has
\* nothing left to do).
ResetAudioQueue(from) ==
  /\ resets[from] > 0
  /\ resets' = IF from = "resetAudio"
                THEN [resets EXCEPT !["resetAudio"] = @ - 1,
                                    !["resetAudioReply"] = @ + 1]
                ELSE [resets EXCEPT ![from] = @ - 1]
  /\ last' = [Step("resetAudio") EXCEPT !.origin = "shell", !.input = from]
  /\ Send(<<Event("audio-queue-reset", "", 0)>>)
  /\ UNCHANGED <<config, screenshotQueue, isProcessing, clock, takes, jobs, nJobs,
                 budget>>
  /\ UNCHANGED <<recVars, parse, cfgVars>>

\* App.handleReset after its second await: history and current item cleared.
ShellResetDone ==
  /\ resets["resetAudioReply"] > 0
  /\ resets' = [resets EXCEPT !["resetAudioReply"] = @ - 1]
  /\ last' = [Step("shellResetDone") EXCEPT !.origin = "shell", !.outcome = "done"]
  /\ emitted' = <<>>
  /\ history' = <<>>
  /\ UNCHANGED <<config, screenshotQueue, isProcessing, clock, takes, jobs, nJobs,
                 budget, screenshots, streamingResponse>>
  /\ UNCHANGED <<recVars, parse, cfgVars>>

\* ---------------------------------------------------- AudioRecorderService
\* A recorder request in flight: the method it runs (op), who awaits it (via:
\* the orchestrator's handleToggleRecording, or another caller of the public
\* method), where it is suspended (pc), the subprocess whose close it awaits
\* (proc), and for the audio pipeline that follows a stop, the finished file
\* (path), the chunk texts its stream has yielded so far (chunks) and the
\* non-streaming requests it has made (fallbacks).
Call(id, via, op, pc, proc) ==
  [id |-> id, via |-> via, op |-> op, pc |-> pc, proc |-> proc, path |-> 0,
   chunks |-> <<>>, fallbacks |-> 0]

\* A chunk text: with a visible character, or whitespace only.
ChunkKinds == {"text", "blank"}

Live == {p \in 1..Len(procs) : procs[p] = "running"}

\* What handleToggleRecording's catch sends; another caller gets the error.
RecordingError(via, err) ==
  IF via = "toggle" THEN <<Event("recording-error", err, 0)>> ELSE <<>>

\* Weakened guard: startRecording without its state test.
AlreadyRecordingIgnored == FALSE

AlreadyRecording == isRecording

NotRecording == ~isRecording

\* startRecording up to its first await (the probe for a recording tool).
StartRecording(id, via) ==
  IF AlreadyRecording
    THEN /\ last' = [Step("start") EXCEPT !.job = id, !.origin = via,
                       !.outcome = "InvalidState"]
         /\ Send(RecordingError(via, "InvalidState"))
         /\ UNCHANGED <<isRecording, recordingProcess, outputPath, questionCounter,
                        procs, calls>>
    ELSE /\ outputPath' = questionCounter
         /\ calls' = calls \cup {Call(id, via, "start", "probing", 0)}
         /\ last' = [Step("start") EXCEPT !.job = id, !.origin = via,
                       !.outcome = "suspended"]
         /\ Send(<<>>)
         /\ UNCHANGED <<isRecording, recordingProcess, questionCounter, procs>>

\* stopRecording up to its first await: the close of the subprocess it
\* signalled or, with no handle held, the stat of the output file.
StopRecording(id, via) ==
  IF NotRecording
    THEN /\ last' = [Step("stop") EXCEPT !.job = id, !.origin = via,
                       !.outcome = "InvalidState"]
         /\ Send(RecordingError(via, "InvalidState"))
         /\ UNCHANGED <<isRecording, recordingProcess, outputPath, questionCounter,
                        procs, calls>>
    ELSE /\ isRecording' = FALSE
         /\ calls' = calls \cup
              {IF recordingProcess # 0
                 THEN Call(id, via, "stop", "awaitClose", recordingProcess)
                 ELSE Call(id, via, "stop", "stat", 0)}
         /\ last' = [Step("stop") EXCEPT !.job = id, !.origin = via,
                       !.outcome = "suspended"]
         /\ Send(<<>>)
         /\ UNCHANGED <<recordingProcess, outputPath, questionCounter, procs>>

\* toggleRecording, as awaited by handleToggleRecording.
ToggleRecording ==
  /\ budget > 0
  /\ budget' = budget - 1
  /\ nCalls' = nCalls + 1
  /\ IF isRecording
       THEN StopRecording(nCalls + 1, "toggle")
       ELSE StartRecording(nCalls + 1, "toggle")
  /\ UNCHANGED <<config, screenshotQueue, isProcessing, clock, takes, jobs, nJobs,
                 resets, parse, cfgVars>>

\* The public methods called directly.
StartRecordingCall ==
  /\ budget > 0
  /\ budget' = budget - 1
  /\ nCalls' = nCalls + 1
  /\ StartRecording(nCalls + 1, "api")
  /\ UNCHANGED <<config, screenshotQueue, isProcessing, clock, takes, jobs, nJobs,
                 resets, parse, cfgVars>>

StopRecordingCall ==
  /\ budget > 0
  /\ budget' = budget - 1
  /\ nCalls' = nCalls + 1
  /\ StopRecording(nCalls + 1, "api")
  /\ UNCHANGED <<config, screenshotQueue, isProcessing, clock, takes, jobs, nJobs,
                 resets, parse, cfgVars>>

\* handleToggleRecording once toggleRecording has resolved with `path`, the
\* recorder reporting `rec`: recording-toggled, then after a stop
\* handleProcessAudio up to its first await.
ToggleEvents(rec, path) ==
  <<Event("recording-toggled", IF rec THEN "recording" ELSE "idle", path)>>
  \o (IF ~rec /\ path # 0
        THEN IF NoConfig
               THEN <<Event("audio-processing-error", "NoConfig", 0)>>
               ELSE <<Event("audio-processing-started", "", 0)>>
        ELSE <<>>)

\* Whether that handler stays in flight, in the audio pipeline.
EntersAudio(via, rec, path) == via = "toggle" /\ ~rec /\ path # 0 /\ ~NoConfig

\* Weakened result: the start call resolves with no path.
StartResultNone(c) == 0

\* What the start call resolves with: the recorder's output path as it is
\* when the call returns.
StartResult(c) == outputPath

\* The probe is over: spawn and report recording, or fail.
StartProbed(c, found) ==
  /\ c.op = "start" /\ c.pc = "probing"
  /\ calls' = calls \ {c}
  /\ IF found
       THEN /\ procs' = Append(procs, "running")
            /\ recordingProcess' = Len(procs) + 1
            /\ isRecording' = TRUE
            /\ last' = [Step("probed") EXCEPT !.job = c.id, !.origin = c.via,
                          !.input = "found", !.outcome = "started",
                          !.path = StartResult(c)]
            /\ Send(IF c.via = "toggle" THEN ToggleEvents(TRUE, StartResult(c))
                    ELSE <<>>)
       ELSE /\ isRecording' = FALSE
            /\ last' = [Step("probed") EXCEPT !.job = c.id, !.origin = c.via,
                          !.input = "none", !.outcome = "CapabilityUnavailable"]
            /\ Send(RecordingError(c.via, "CapabilityUnavailable"))
            /\ UNCHANGED <<procs, recordingProcess>>
  /\ UNCHANGED <<outputPath, questionCounter, nCalls>>
  /\ UNCHANGED <<config, screenshotQueue, isProcessing, clock, takes, jobs, nJobs,
                 resets, budget, parse, cfgVars>>

\* The subprocess's 'error' event: the listener startRecording registered.
ProcError(p) ==
  /\ procs[p] = "running"
  /\ procs' = [procs EXCEPT ![p] = "failed"]
  /\ isRecording' = FALSE
  /\ last' = [Step("procError") EXCEPT !.job = p]
  /\ Send(<<>>)
  /\ UNCHANGED <<recordingProcess, outputPath, questionCounter, calls, nCalls>>
  /\ UNCHANGED <<config, screenshotQueue, isProcessing, clock, takes, jobs, nJobs,
                 resets, budget, parse, cfgVars>>

\* The subprocess's 'close' event: a stop that awaits it resumes, drops the
\* handle and goes on to stat the output file.
ProcClose(p) ==
  /\ procs[p] \in {"running", "failed"}
  /\ procs' = [procs EXCEPT ![p] = "closed"]
  /\ LET waiting == {c \in calls : c.pc = "awaitClose" /\ c.proc = p}
     IN /\ calls' = (calls \ waiting) \cup {[c EXCEPT !.pc = "stat"] : c \in waiting}
        /\ recordingProcess' = IF waiting = {} THEN recordingProcess ELSE 0
  /\ last' = [Step("procClose") EXCEPT !.job = p]
  /\ Send(<<>>)
  /\ UNCHANGED <<isRecording, outputPath, questionCounter, nCalls>>
  /\ UNCHANGED <<config, screenshotQueue, isProcessing, clock, takes, jobs, nJobs,
                 resets, budget, parse, cfgVars>>

FileStates == {"ok", "empty", "missing"}

\* Weakened test: the output file accepted whatever its size.
FileUsableAnySize(file) == file # "missing"

\* stopRecording's test of the output file: present and not empty.
FileUsable(file) == file = "ok"

\* fs.stat has answered: the stop returns the path, or fails.
StopStat(c, file) ==
  /\ c.op = "stop" /\ c.pc = "stat"
  /\ IF FileUsable(file)
       THEN /\ questionCounter' = questionCounter + 1
            /\ isRecording' = isRecording
            /\ calls' = (calls \ {c}) \cup
                 (IF EntersAudio(c.via, isRecording, outputPath)
                    THEN {[c EXCEPT !.op = "audio", !.pc = "encoding", !.proc = 0,
                                    !.path = outputPath]}
                    ELSE {})
            /\ last' = [Step("stat") EXCEPT !.job = c.id, !.origin = c.via,
                          !.input = file, !.outcome = "stopped", !.path = outputPath]
            /\ Send(IF c.via = "toggle" THEN ToggleEvents(isRecording, outputPath)
                    ELSE <<>>)
       ELSE /\ questionCounter' = questionCounter
            /\ isRecording' = FALSE
            /\ calls' = calls \ {c}
            /\ last' = [Step("stat") EXCEPT !.job = c.id, !.origin = c.via,
                          !.input = file, !.outcome = "RecordingFailed"]
            /\ Send(RecordingError(c.via, "RecordingFailed"))
  /\ UNCHANGED <<recordingProcess, outputPath, procs, nCalls>>
  /\ UNCHANGED <<config, screenshotQueue, isProcessing, clock, takes, jobs, nJobs,
                 resets, budget, parse, cfgVars>>

\* ------------------------------------------------------ handleProcessAudio
AudioFrame ==
  /\ UNCHANGED <<isRecording, recordingProcess, outputPath, questionCounter, procs,
                 nCalls>>
  /\ UNCHANGED <<config, screenshotQueue, isProcessing, clock, takes, jobs, nJobs,
                 resets, budget, parse, cfgVars>>

\* Weakened test: audio handed to the adapter whatever the provider.
AudioSupportedAnyProvider == TRUE

\* handleProcessAudio's test of the provider: only the Gemini-style adapter
\* is given audio.
AudioSupported == config.provider = "gemini"

\* The file has been read and encoded (or the read threw): the Gemini-style
\* adapter opens its stream, any other provider is refused.
AudioEncoded(c, ok) ==
  /\ c.op = "audio" /\ c.pc = "encoding"
  /\ LET outcome == IF ~ok THEN "ReadFailed"
                    ELSE IF ~AudioSupported THEN "UnsupportedOperation"
                    ELSE IF ~config.ready THEN "NotInitialised"
                    ELSE "streaming"
     IN /\ calls' = (calls \ {c}) \cup
                    (IF outcome = "streaming" THEN {[c EXCEPT !.pc = "streaming"]}
                     ELSE {})
        /\ last' = [Step("audioEncoded") EXCEPT !.job = c.id, !.outcome = outcome,
                      !.input = IF ok THEN "read" ELSE "unreadable"]
        /\ Send(IF outcome = "streaming" THEN <<>>
                ELSE <<Event("audio-processing-error", outcome, c.id)>>)
  /\ AudioFrame

\* The stream yields a chunk with text: onChunk forwards it.
AudioChunk(c, kind) ==
  /\ c.op = "audio" /\ c.pc = "streaming"
  /\ Len(c.chunks) < MaxChunks
  /\ calls' = (calls \ {c}) \cup
              {[c EXCEPT !.chunks = Append(@, [kind |-> kind, n |-> Len(@) + 1])]}
  /\ last' = [Step("audioChunk") EXCEPT !.job = c.id, !.input = kind]
  /\ Send(<<Event("audio-stream-chunk", kind, Len(c.chunks) + 1)>>)
  /\ AudioFrame

\* Weakened test: the stream counted as having yielded text whatever it did.
HasReceivedContentAlways(c) == TRUE

\* processAudioStream's hasReceivedContent.
HasReceivedContent(c) == c.chunks # <<>>

\* Weakened test: the non-streaming request also made after the stream threw.
MakesFallbackOnError(c, ok) == ~HasReceivedContent(c)

\* Whether processAudioStream goes on to its non-streaming request: the loop
\* ended without throwing and no text was received.
MakesFallback(c, ok) == ok /\ ~HasReceivedContent(c)

\* The stream ends or throws; with no text received the adapter makes its
\* non-streaming request.
AudioStreamEnd(c, ok) ==
  /\ c.op = "audio" /\ c.pc = "streaming"
  /\ LET fallback == MakesFallback(c, ok)
     IN /\ calls' = (calls \ {c}) \cup
                    (IF fallback
                       THEN {[c EXCEPT !.pc = "fallback", !.fallbacks = @ + 1]}
                       ELSE {})
        /\ last' = [Step("audioStreamEnd") EXCEPT !.job = c.id,
                      !.input = IF ok THEN "end" ELSE "error",
                      !.outcome = IF fallback THEN "fallback"
                                  ELSE IF ok THEN "complete" ELSE "ProviderError"]
        /\ Send(IF fallback THEN <<>>
                ELSE IF ok THEN <<Event("audio-processing-complete", "", c.id)>>
                ELSE <<Event("audio-processing-error", "ProviderError", c.id)>>)
  /\ AudioFrame

\* What the non-streaming request can come to: a text, an empty text, a throw.
FallbackAnswers == ChunkKinds \cup {"empty", "error"}

\* The non-streaming request answers with text, with none, or throws.
AudioFallback(c, answer) ==
  /\ c.op = "audio" /\ c.pc = "fallback"
  /\ calls' = calls \ {c}
  /\ last' = [Step("audioFallback") EXCEPT !.job = c.id, !.input = answer,
                !.outcome = IF answer = "error" THEN "ProviderError" ELSE "complete"]
  /\ Send(CASE answer \in ChunkKinds ->
                 <<Event("audio-stream-chunk", answer, 1),
                   Event("audio-processing-complete", "", c.id)>>
            [] answer = "empty" -> <<Event("audio-processing-complete", "", c.id)>>
            [] OTHER -> <<Event("audio-processing-error", "ProviderError", c.id)>>)
  /\ AudioFrame

\* -------------------------------------------------------------- saveConfig
\* A Config as save-config receives it: the provider chosen ("" for none),
\* whether language and model are present, whether each API key is
\* non-empty, and rev, which tells one submitted Config from another.
NewConfig(rev) ==
  [provider : {"", "openai", "gemini"}, language : BOOLEAN, model : BOOLEAN,
   openaiApiKey : BOOLEAN, geminiApiKey : BOOLEAN, rev : {rev}]

\* No Config (null), and a file the write left damaged.
NoSettings == [provider |-> "", language |-> FALSE, model |-> FALSE,
               openaiApiKey |-> FALSE, geminiApiKey |-> FALSE, rev |-> 0]
Damaged == [NoSettings EXCEPT !.rev = -1]

\* What loadConfig left behind for a given `config`.
LoadedSettings(c) ==
  IF c.provider = "none" THEN NoSettings
  ELSE [provider |-> c.provider, language |-> TRUE, model |-> TRUE,
        openaiApiKey |-> (c.provider = "openai" /\ c.ready),
        geminiApiKey |-> (c.provider = "gemini" /\ c.ready), rev |-> 0]

InitialStore(c) ==
  [file |-> LoadedSettings(c), mem |-> LoadedSettings(c),
   openai |-> IF c.provider = "openai" /\ c.ready THEN LoadedSettings(c)
              ELSE NoSettings,
   gemini |-> IF c.provider = "gemini" /\ c.ready THEN LoadedSettings(c)
              ELSE NoSettings,
   recorder |-> LoadedSettings(c)]

\* Weakened validation: the required fields without the key tests.
ValidConfigWithoutKey(c) == c.provider # "" /\ c.language /\ c.model

\* saveConfig's validation.
ValidConfig(c) ==
  /\ c.provider # "" /\ c.language /\ c.model
  /\ c.provider = "openai" => c.openaiApiKey
  /\ c.provider = "gemini" => c.geminiApiKey

CfgFrame ==
  UNCHANGED <<screenshotQueue, isProcessing, clock, takes, jobs, nJobs, resets,
              recVars, parse>>

\* save-config, up to the await of the file write; a Config that fails the
\* validation makes saveConfig throw and the handler return false.
SaveConfig(c) ==
  /\ budget > 0
  /\ budget' = budget - 1
  /\ saves' = IF ValidConfig(c) THEN saves \cup {c} ELSE saves
  /\ last' = [Step("saveConfig") EXCEPT !.job = c.rev, !.arg = c,
                !.outcome = IF ValidConfig(c) THEN "suspended" ELSE "rejected"]
  /\ Send(<<>>)
  /\ UNCHANGED <<config, store>>
  /\ CfgFrame

WriteOutcomes == {"written", "failed", "partial"}

\* The file write is over: on success the Config is taken into memory and
\* the selected adapter and the recorder are configured from it, and the
\* handler returns true; on failure nothing else is done and it returns false.
SaveWritten(c, w) ==
  /\ c \in saves
  /\ saves' = saves \ {c}
  /\ IF w = "written"
       THEN /\ store' = [file |-> c, mem |-> c,
                         openai |-> IF c.provider = "openai" /\ c.openaiApiKey
                                      THEN c ELSE store.openai,
                         gemini |-> IF c.provider = "gemini" /\ c.geminiApiKey
                                      THEN c ELSE store.gemini,
                         recorder |-> c]
            /\ config' = [provider |-> c.provider,
                          ready |-> IF c.provider = "openai"
                                      THEN c.openaiApiKey \/ store.openai # NoSettings
                                      ELSE c.geminiApiKey \/ store.gemini # NoSettings]
       ELSE /\ store' = [store EXCEPT !.file = IF w = "partial" THEN Damaged ELSE @]
            /\ config' = config
  /\ last' = [Step("saveWritten") EXCEPT !.job = c.rev, !.arg = c, !.input = w,
                !.outcome = IF w = "written" THEN "saved" ELSE "failed"]
  /\ Send(<<>>)
  /\ UNCHANGED budget
  /\ CfgFrame

\* ----------------------------------------------------------- specification
\* The state after construction of each part.
ShotInit ==
  /\ screenshotQueue = <<>>
  /\ isProcessing = FALSE
  /\ clock = 0
  /\ takes = 0
  /\ jobs = {}
  /\ nJobs = 0
  /\ resets = [p \in ResetPositions |-> 0]
  /\ screenshots = <<>>
  /\ history = <<>>
  /\ streamingResponse = <<>>
  /\ last = Step("init")
  /\ emitted = <<>>

RecInit ==
  /\ isRecording = FALSE
  /\ recordingProcess = 0
  /\ outputPath = 0
  /\ questionCounter = 1
  /\ procs = <<>>
  /\ calls = {}
  /\ nCalls = 0

\* No response under parse.
NoParse == [adapter |-> "none", text |-> <<>>, result |-> Failure("none")]

Init ==
  /\ config \in Configs
  /\ budget = MaxIntents
  /\ ShotInit
  /\ RecInit
  /\ parse = NoParse
  /\ store = InitialStore(config)
  /\ saves = {}

Next ==
  \/ TakeScreenshot
  \/ TakeDone
  \/ TakeFail
  \/ ProcessQueue
  \/ \E j \in jobs : JobRead(j)
  \/ \E j \in jobs, threw \in BOOLEAN, text \in SampleTexts \cup {<<>>} :
       JobReturn(j, threw, text)
  \/ \E origin \in ResetOrigins : ResetQueue(origin)
  \/ \E origin \in ResetOrigins, failed \in SUBSET Unlinked :
       ResetFinish(origin, failed)
  \/ ResetAudioQueue("resetAudio")
  \/ ShellResetDone

Spec == Init /\ [][Next]_vars

\* The recorder and the audio pipeline, driven by toggle-recording intents.
RecorderInit ==
  /\ config \in Configs
  /\ budget = MaxToggles
  /\ ShotInit
  /\ RecInit
  /\ parse = NoParse
  /\ store = InitialStore(config)
  /\ saves = {}

RecorderNext ==
  \/ ToggleRecording
  \/ \E c \in calls, found \in BOOLEAN : StartProbed(c, found)
  \/ \E p \in 1..Len(procs) : ProcError(p)
  \/ \E p \in 1..Len(procs) : ProcClose(p)
  \/ \E c \in calls, file \in FileStates : StopStat(c, file)
  \/ \E c \in calls, ok \in BOOLEAN : AudioEncoded(c, ok)
  \/ \E c \in calls, kind \in ChunkKinds : AudioChunk(c, kind)
  \/ \E c \in calls, ok \in BOOLEAN : AudioStreamEnd(c, ok)
  \/ \E c \in calls, answer \in FallbackAnswers : AudioFallback(c, answer)

SpecRecorder == RecorderInit /\ [][RecorderNext]_vars

\* The same, with the recorder's public start and stop also called directly.
RecorderApiNext ==
  \/ RecorderNext
  \/ StartRecordingCall
  \/ StopRecordingCall

SpecRecorderApi == RecorderInit /\ [][RecorderApiNext]_vars

\* The recorder and the audio pipeline together with the resets: the
\* shell's reset-audio and reset-all, and the reset-all hotkey.  No
\* screenshot is taken, so a reset-all has no file to delete.
AudioResetNext ==
  \/ RecorderNext
  \/ ResetAudio
  \/ \E origin \in ResetOrigins : ResetQueue(origin)
  \/ \E from \in AudioResetCallers : ResetAudioQueue(from)
  \/ ShellResetDone

SpecAudioReset == RecorderInit /\ [][AudioResetNext]_vars

\* The recorder alone, with no Config loaded so that no audio job follows a
\* stop: longer runs of toggle-recording intents.
SessionsInit ==
  /\ config \in {c \in Configs : c.provider = "none"}
  /\ budget = MaxSessionToggles
  /\ ShotInit
  /\ RecInit
  /\ parse = NoParse
  /\ store = InitialStore(config)
  /\ saves = {}

SessionsNext ==
  \/ ToggleRecording
  \/ \E c \in calls, found \in BOOLEAN : StartProbed(c, found)
  \/ \E p \in 1..Len(procs) : ProcError(p)
  \/ \E p \in 1..Len(procs) : ProcClose(p)
  \/ \E c \in calls, file \in FileStates : StopStat(c, file)

SpecSessions == SessionsInit /\ [][SessionsNext]_vars

\* The adapters' parsing alone, over every response text within the bound.
ParseInit ==
  /\ config \in {c \in Configs : c.ready}
  /\ budget = 0
  /\ ShotInit
  /\ RecInit
  /\ store = InitialStore(config)
  /\ saves = {}
  /\ parse \in [adapter : {config.provider}, text : TextsUpTo(MaxText),
                result : {Pending}]

SpecParse == ParseInit /\ [][ParseResponse]_vars

\* save-config requests alone.
ConfigInit ==
  /\ config \in Configs
  /\ budget = MaxSaves
  /\ ShotInit
  /\ RecInit
  /\ parse = NoParse
  /\ store = InitialStore(config)
  /\ saves = {}

ConfigNext ==
  \/ \E c \in NewConfig(MaxSaves - budget + 1) : SaveConfig(c)
  \/ \E c \in saves, w \in WriteOutcomes : SaveWritten(c, w)

SpecConfig == ConfigInit /\ [][ConfigNext]_vars


\* ------------------------------------------------------------------ claims
\* The jobs process-queue accepted whose adapter call has not returned and
\* which no reset-all has cancelled.
ActiveJobs == {j \in jobs : ~j.cancelled}

\* C1: the screenshot queue never holds more than MAX_SCREENSHOTS artifacts,
\* however take-screenshot intents interleave, and a take-screenshot handled
\* at capacity sends no event.
C1_QueueWithinCapacity ==
  /\ Len(screenshotQueue) <= MAX_SCREENSHOTS
  /\ (last.op = "take" /\ last.outcome = "rejected") => emitted = <<>>

C3_SingleActiveJob == Cardinality(ActiveJobs) <= 1

\* C4: the completion of a job that a reset-all cancelled while its adapter
\* call was in flight sends no processing-complete.
C4_CancelledJobIsSilent ==
  [][ \A j \in jobs :
        (j.cancelled /\ last'.op = "jobReturn" /\ last'.job = j.id)
          => emitted' = <<>>
    ]_vars

\* C5: a process-queue handled with an empty queue changes nothing: no job,
\* no provider call, no event, the flag as it was.
C5_EmptyQueueProcessIsNoOp ==
  [][ (last'.op = "process" /\ Len(screenshotQueue) = 0) =>
        /\ jobs' = jobs
        /\ nJobs' = nJobs
        /\ emitted' = <<>>
        /\ isProcessing' = isProcessing
        /\ history' = history
    ]_vars

\* C5 witness: process-queue was handled on an empty queue while the flag
\* was set (a job accepted during a reset's deletion loop is in flight).
C5_Witness ==
  /\ last.op = "process"
  /\ Len(screenshotQueue) = 0
  /\ isProcessing
  /\ jobs # {}

\* The orchestrator's handler of a reset-all has run to its end.
MainResetDone == last.op \in {"reset", "resetFinish"} /\ last.outcome = "done"

\* C6: once a reset-all has been handled, through the global hotkey (the
\* orchestrator's handler alone) or through the shell's handler
\* (App.handleReset), the queue is empty and the history is empty.
C6_ResetEmptiesQueueAndHistory ==
  /\ MainResetDone => screenshotQueue = <<>>
  /\ (MainResetDone /\ last.origin = "hotkey") => history = <<>>
  /\ last.op = "shellResetDone" => history = <<>>

\* C7: the recorder's stop while idle and start while recording both fail
\* with InvalidState and change nothing of the recorder: its state, output
\* path, question counter, subprocess handle and requests in flight.
C7_WrongStateRequestFails ==
  [][ ((last'.op = "stop" /\ ~isRecording) \/ (last'.op = "start" /\ isRecording))
      => /\ last'.outcome = "InvalidState"
         /\ isRecording' = isRecording
         /\ outputPath' = outputPath
         /\ questionCounter' = questionCounter
         /\ recordingProcess' = recordingProcess
         /\ procs' = procs
         /\ calls' = calls ]_vars

C7_Witness ==
  /\ last.op = "start" /\ last.outcome = "InvalidState" /\ last.origin = "api"
  /\ isRecording
  /\ Live # {}
  /\ recordingProcess \in Live

\* C8: at most one recording subprocess is alive, whatever the toggles.
C8_SingleLiveSubprocess == Cardinality(Live) <= 1

\* C9: a stop whose output file is missing or empty fails with
\* RecordingFailed, leaves the recorder idle and starts no audio job: the
\* shell gets recording-error only and the request does not go on to the
\* provider.
C9_BadFileStartsNoAudioJob ==
  [][ \A c \in calls :
        (last'.op = "stat" /\ last'.job = c.id /\ last'.input \in {"empty", "missing"})
        => /\ last'.outcome = "RecordingFailed"
           /\ isRecording' = FALSE
           /\ questionCounter' = questionCounter
           /\ \A d \in calls' : d.id # c.id
           /\ emitted' = RecordingError(c.via, "RecordingFailed") ]_vars

C9_Witness ==
  /\ last.op = "stat" /\ last.input = "empty" /\ last.origin = "toggle"
  /\ last.outcome = "RecordingFailed"
  /\ ~isRecording
  /\ emitted = <<Event("recording-error", "RecordingFailed", 0)>>
  /\ config.ready

\* C10: two screenshots enqueued, process-queue accepted, the provider call
\* returns a valid result: one processing-complete with that result, and one
\* new history entry at the head whose screenshots are the two processed.
C10_EndToEndScreenshotFlow ==
  [][ \A j \in jobs :
        ( /\ last'.op = "jobReturn" /\ last'.job = j.id
          /\ last'.input = "response" /\ last'.text = <<"{", "full", "}">>
          /\ Len(j.arr) = 2 /\ j.arr = screenshotQueue /\ screenshots = j.arr
          /\ ~j.cancelled /\ jobs = {j} /\ isProcessing )
        => /\ emitted' = <<SolutionResult(j.id)>>
           /\ history' = <<[type |-> "screenshot",
                            result |-> [kind |-> "solution", n |-> j.id,
                                        msg |-> ""],
                            screenshots |-> j.arr]>> \o history
    ]_vars

\* The step sent audio-processing-complete.
AudioCompleteSent ==
  \E i \in 1..Len(emitted') : emitted'[i].ch = "audio-processing-complete"

\* C11: when an audio job's stream completes, one history entry of kind
\* audio holding the accumulated transcript is added as the newest if the
\* transcript is non-empty after trimming, and none is added otherwise.
C11_AudioHistoryFromTranscript ==
  [][ AudioCompleteSent =>
        IF Trim(streamingResponse') # <<>>
          THEN history' = <<AudioHistoryItem(streamingResponse')>> \o history
          ELSE history' = history
    ]_vars

\* C12: within one audio job every chunk the adapter yields is forwarded as
\* one audio-stream-chunk event, in the order yielded, and when the job's
\* stream completes the shell's transcript is the in-order concatenation of
\* the job's chunks.
C12_ChunksInOrder ==
  [][ \A c \in calls :
        /\ (last'.op = "audioChunk" /\ last'.job = c.id) =>
             /\ Len(emitted') = 1
             /\ emitted'[1].ch = "audio-stream-chunk"
             /\ \E d \in calls' :
                  /\ d.id = c.id
                  /\ d.chunks = Append(c.chunks, [kind |-> emitted'[1].kind,
                                                  n |-> emitted'[1].n])
        /\ (last'.op = "audioStreamEnd" /\ last'.job = c.id
              /\ last'.outcome = "complete") =>
             streamingResponse' = c.chunks
    ]_vars

\* The audio-stream-chunk events among evs.
ChunkEvents(evs) == {i \in 1..Len(evs) : evs[i].ch = "audio-stream-chunk"}

\* The stream of job c has just ended normally (last'.job = c.id).
StreamEnded(c) ==
  last'.op = "audioStreamEnd" /\ last'.job = c.id /\ last'.input = "end"

\* C13 as stated: a stream that ends with no text chunk is followed by one
\* non-streaming request whose result is delivered as exactly one
\* audio-stream-chunk event, whatever that result is.
C13_FallbackAlwaysOneChunk ==
  [][ \A c \in calls :
        (last'.op = "audioFallback" /\ last'.job = c.id /\ last'.input # "error")
          => Cardinality(ChunkEvents(emitted')) = 1
    ]_vars

\* C13, amended: a stream that ends with no text chunk makes exactly one
\* non-streaming request, and a stream that yielded a text chunk makes none;
\* a result with text is delivered as exactly one audio-stream-chunk event
\* followed by audio-processing-complete, an empty result as no chunk event.
C13_FallbackOnceOnEmptyStream ==
  [][ \A c \in calls :
        /\ (StreamEnded(c) /\ c.chunks = <<>>) =>
             /\ c.fallbacks = 0
             /\ emitted' = <<>>
             /\ \E d \in calls' : d.id = c.id /\ d.pc = "fallback" /\ d.fallbacks = 1
        /\ (StreamEnded(c) /\ c.chunks # <<>>) =>
             /\ c.fallbacks = 0
             /\ \A d \in calls' : d.id # c.id
             /\ ChunkEvents(emitted') = {}
        /\ (last'.op = "audioFallback" /\ last'.job = c.id) =>
             /\ c.fallbacks = 1 /\ c.chunks = <<>>
             /\ \A d \in calls' : d.id # c.id
             /\ emitted' =
                  IF last'.input \in ChunkKinds
                    THEN <<Event("audio-stream-chunk", last'.input, 1),
                           Event("audio-processing-complete", "", c.id)>>
                  ELSE IF last'.input = "empty"
                    THEN <<Event("audio-processing-complete", "", c.id)>>
                  ELSE <<Event("audio-processing-error", "ProviderError", c.id)>>
    ]_vars

C13_Witness ==
  /\ last.op = "audioFallback" /\ last.input = "text"
  /\ Cardinality(ChunkEvents(emitted)) = 1
  /\ streamingResponse = <<[kind |-> "text", n |-> 1]>>

\* C14: a history entry is created only when a job completes successfully:
\* the return of a failed adapter call adds none, and neither does a reset
\* that cancels a job.
C14_NoHistoryOnFailureOrCancel ==
  [][ /\ (last'.op = "jobReturn" /\ last'.outcome = "err") => history' = history
      /\ (last'.op = "reset" /\ isProcessing) => Len(history') <= Len(history)
    ]_vars

\* Where the balanced span that opens at i closes (depth is the nesting
\* before i), 0 if it never does.
RECURSIVE BalancedEnd(_, _, _)
BalancedEnd(t, i, depth) ==
  IF i > Len(t) THEN 0
  ELSE LET d == depth + (IF t[i] = "{" THEN 1 ELSE IF t[i] = "}" THEN -1 ELSE 0)
       IN IF d = 0 THEN i ELSE BalancedEnd(t, i + 1, d)

\* The first balanced {...} span of a text, <<>> if it has none.
FirstBalancedSpan(t) ==
  LET starts == {i \in 1..Len(t) : t[i] = "{" /\ BalancedEnd(t, i, 0) # 0}
  IN IF starts = {} THEN <<>>
     ELSE LET a == CHOOSE i \in starts : \A k \in starts : i <= k
          IN SubSeq(t, a, BalancedEnd(t, a, 0))

\* C15: either adapter parses the first balanced {...} span of the response
\* text, whatever prose surrounds it: a text with no such span, or whose span
\* does not parse, is rejected, and a text whose span is a four-field object
\* yields exactly those fields.
C15_ParsesFirstBalancedSpan ==
  parse.result # Pending /\ parse.adapter # "none" =>
    LET span == FirstBalancedSpan(parse.text)
    IN /\ (span = <<>> \/ ~JsonParse(span).ok) => ~parse.result.ok
       /\ (span # <<>> /\ JsonParse(span) = Success("full")) =>
            parse.result = Success("full")

\* C16: every result the image flow delivers as a success has its four
\* fields non-empty: a response that lacks one is delivered as an error
\* result, with either adapter.
C16_SuccessHasFourFields ==
  /\ \A i \in 1..Len(emitted) :
       emitted[i].ch = "processing-complete" => emitted[i].kind # "incomplete"
  /\ (last.op = "jobReturn" /\ last.input = "response" /\ emitted # <<>>
        /\ last.text = <<"{", "partial", "}">>) => emitted[1].kind = "error"

C18_NoConfigSyntheticError ==
  [][ (last'.op = "process" /\ config.provider = "none" /\ Len(screenshotQueue) > 0)
        => /\ emitted' = <<NoConfigResult>>
           /\ jobs' = jobs
           /\ nJobs' = nJobs
           /\ ~isProcessing /\ ~isProcessing'
           /\ screenshotQueue' = screenshotQueue
    ]_vars

C18_Witness ==
  /\ last.op = "process" /\ last.outcome = "noconfig"
  /\ Len(screenshotQueue) = 2
  /\ emitted = <<NoConfigResult>>
  /\ jobs = {} /\ ~isProcessing

\* C19: when the adapter call of a job that no reset cancelled fails, the
\* handler sends exactly one processing-complete, carrying the error-shaped
\* result with the error's message, and itself completes normally.
C19_FailureBecomesErrorResult ==
  [][ \A j \in jobs :
        (last'.op = "jobReturn" /\ last'.job = j.id /\ last'.outcome = "err"
           /\ ~j.cancelled)
        => /\ Len(emitted') = 1
           /\ emitted'[1].ch = "processing-complete"
           /\ emitted'[1].kind = "error"
           /\ emitted'[1].n = j.id
           /\ emitted'[1].msg \in {"ProviderError", "NoJson", "SyntaxError",
                                   "InvalidStructure"}
           /\ \A d \in jobs' : d.id # j.id
    ]_vars

\* C20: whenever the adapter call of an accepted job returns, with a result,
\* with a failure, or after a reset cancelled the job, the single-flight flag
\* is clear afterwards, and a process-queue handled next on a non-empty
\* queue is not turned away.
C20_FlagClearedOnReturn ==
  [][ /\ last'.op = "jobReturn" => ~isProcessing'
      /\ (last'.op = "process" /\ last'.outcome = "threw") => ~isProcessing'
      /\ (last.op = "jobReturn" /\ last'.op = "process" /\ Len(screenshotQueue) > 0)
           => last'.outcome # "rejected"
    ]_vars

C20_Witness ==
  /\ last.op = "jobReturn" /\ last.outcome = "err" /\ last.input = "throw"
  /\ ~isProcessing
  /\ Len(screenshotQueue) > 0
  /\ jobs = {}
  /\ \E i \in 1..Len(emitted) : emitted[i].kind = "error"

\* C21: when the stop of a toggle-recording call succeeds, the call returns
\* to its caller in that step: it does not stay suspended in the audio
\* pipeline it has triggered.
C21_ToggleReturnsAfterStop ==
  [][ (last'.op = "stat" /\ last'.origin = "toggle" /\ last'.outcome = "stopped")
        => \A c \in calls' : c.id # last'.job
    ]_vars

\* C22: with the OpenAI-style adapter selected an audio job never gets past
\* the file read: once the file is read the job ends with one
\* audio-processing-error UnsupportedOperation (with the read error if the
\* read threw), no stream is opened with any provider, and no
\* audio-stream-chunk or audio-processing-complete is ever emitted.
C22_OpenAIAudioUnsupported ==
  [][ config.provider = "openai" =>
        /\ \A i \in 1..Len(emitted') :
             emitted'[i].ch \notin {"audio-stream-chunk", "audio-processing-complete"}
        /\ \A c \in calls' : c.op = "audio" => c.pc = "encoding"
        /\ last'.op = "audioEncoded" =>
             /\ emitted' = <<Event("audio-processing-error",
                                   IF last'.input = "read" THEN "UnsupportedOperation"
                                   ELSE "ReadFailed", last'.job)>>
             /\ \A c \in calls' : c.id # last'.job
    ]_vars

C22_Witness ==
  /\ config.provider = "openai"
  /\ last.op = "audioEncoded" /\ last.input = "read"
  /\ last.outcome = "UnsupportedOperation"
  /\ \E i \in 1..Len(emitted) : emitted[i].ch = "audio-processing-error"

\* The terminal events of the audio pipeline among `evs`.
TerminalEvents(evs) ==
  SelectSeq(evs, LAMBDA e :
    e.ch \in {"audio-processing-complete", "audio-processing-error"})

\* C23: every audio pipeline run ends with exactly one terminal event, sent
\* in the step in which the run ends: audio-processing-error if the file
\* read, the provider dispatch, the stream or the fallback request threw,
\* audio-processing-complete otherwise; a terminal event is sent at no other
\* step, a run that threw makes no further request, and an ended run never
\* comes back.
C23_OneTerminalEvent ==
  [][ LET term == TerminalEvents(emitted')
          ended == {c \in calls : c.op = "audio" /\ \A d \in calls' : d.id # c.id}
          threw == \/ last'.input \in {"unreadable", "error"}
                   \/ last'.outcome \in {"UnsupportedOperation", "NotInitialised"}
      IN /\ \A c \in ended :
              /\ Len(term) = 1
              /\ term[1].n = c.id
              /\ term[1].ch = IF threw THEN "audio-processing-error"
                              ELSE "audio-processing-complete"
         /\ \A c \in calls : (c.op = "audio" /\ last'.job = c.id /\ threw)
                               => c \in ended
         /\ last'.op # "stat" => (term # <<>> => Cardinality(ended) = 1)
         /\ last'.op = "stat" =>
              term = IF /\ last'.outcome = "stopped" /\ last'.origin = "toggle"
                        /\ ~isRecording' /\ NoConfig
                       THEN <<Event("audio-processing-error", "NoConfig", 0)>>
                       ELSE <<>>
         /\ \A d \in calls' : (\A c \in calls : c.id # d.id)
                                => (d.id = nCalls + 1 /\ nCalls' = nCalls + 1)
    ]_vars

C23_Witness ==
  /\ last.op = "audioStreamEnd" /\ last.input = "error"
  /\ Len(TerminalEvents(emitted)) = 1
  /\ emitted[1].ch = "audio-processing-error"
  /\ \A c \in calls : c.id # last.job

\* The recording-toggled events among `evs`.
ToggledEvents(evs) == SelectSeq(evs, LAMBDA e : e.ch = "recording-toggled")

C25_StopAdvancesCounter ==
  [][ IF last'.op = "stat" /\ last'.outcome = "stopped"
        THEN /\ questionCounter' = questionCounter + 1
             /\ last'.path = questionCounter
        ELSE questionCounter' = questionCounter
    ]_vars

\* The queue-reset events among `evs`.
QueueResetEvents(evs) == SelectSeq(evs, LAMBDA e : e.ch = "queue-reset")

\* C26: whichever deletions fail, when the handler of a reset-all comes to
\* its end it has not failed, the queue is empty, the single-flight flag is
\* clear and exactly one queue-reset has been sent.
C26_ResetBestEffort ==
  [][ last'.op \in {"reset", "resetFinish"} =>
        IF last'.op = "resetFinish" \/ Len(screenshotQueue) = 0
          THEN /\ last'.outcome = "done"
               /\ screenshotQueue' = <<>>
               /\ ~isProcessing'
               /\ Len(QueueResetEvents(emitted')) = 1
          ELSE /\ last'.outcome = "suspended"
               /\ ~isProcessing'
               /\ QueueResetEvents(emitted') = <<>>
    ]_vars

\* The audio pipeline runs in flight: started, no terminal event sent yet.
AudioRuns == {c \in calls : c.op = "audio"}

\* C27: at most one audio pipeline run is in flight at any time, and while
\* one is, no toggle-recording is accepted as a start and no recording
\* session begins.
C27_SingleActiveAudioJob ==
  [][ /\ Cardinality(AudioRuns') <= 1
      /\ AudioRuns # {} =>
           /\ ~(last'.op = "start" /\ last'.outcome = "suspended")
           /\ ~(last'.op = "probed" /\ last'.outcome = "started")
    ]_vars

\* C28: the history changes only by a new entry put at its head, the
\* entries already there keeping their content and order behind it, or by
\* the shell's reset emptying it.
C28_HistoryNewestFirst ==
  [][ \/ history' = history
      \/ /\ Len(history') = Len(history) + 1
         /\ Tail(history') = history
         /\ \E i \in 1..Len(emitted') :
              /\ emitted'[i].ch = "processing-complete"
              /\ Head(history') = HistoryItem(emitted'[i])
      \/ /\ last'.op = "shellResetDone"
         /\ history' = <<>>
    ]_vars

C28_Witness ==
  /\ Len(history) >= 2
  /\ history[1] # history[2]
  /\ last.op = "jobReturn"
  /\ \E i \in 1..Len(emitted) : history[1] = HistoryItem(emitted[i])

C30_BatchIsQueueAtAcceptance ==
  \A j \in jobs : j.pc = "calling" => j.arr = j.queued

\* C31: a job accepted with no reset-all under way and not cancelled by one
\* before its adapter call returns sends, at that return, exactly one
\* processing-complete, carrying its own result.
C31_JobOwnsItsCompletion ==
  [][ \A j \in jobs :
        (~j.cancelled /\ ~j.midReset /\ last'.op = "jobReturn" /\ last'.job = j.id)
          => /\ Len(emitted') = 1
             /\ emitted'[1].ch = "processing-complete"
             /\ emitted'[1].n = j.id
    ]_vars

\* A stop is in progress: stopRecording awaits the close or the stat.
StopInProgress == \E c \in calls : c.op = "stop"

\* C32: while the recorder reports recording, the subprocess whose handle
\* it holds is alive and is the only one alive; while it reports idle with
\* no stop in progress, no recording subprocess is alive.
C32_HandleMatchesLiveSubprocess ==
  /\ isRecording => Live = {recordingProcess}
  /\ (~isRecording /\ ~StopInProgress) => Live = {}

\* The stops that can no longer complete: they await the close of a
\* subprocess that has closed already, an event that does not come again.
StuckStops == {c \in calls : c.pc = "awaitClose" /\ procs[c.proc] = "closed"}

\* C33: a stop requested while recording always gets to its end once the
\* subprocess has exited: no stop is left awaiting the close of a
\* subprocess that is already gone.
C33_StopCompletes == StuckStops = {}

\* A reset has just been handled: reset-audio-queue for either of the
\* shell's handlers, the whole of App.handleReset, or the reset-all hotkey.
AudioResetHandled ==
  \/ last.op \in {"resetAudio", "shellResetDone"}
  \/ last.op = "reset" /\ last.origin = "hotkey" /\ last.outcome = "done"

\* An audio job whose stream is open.
AudioStreaming == \E c \in calls : c.op = "audio" /\ c.pc \in {"streaming", "fallback"}

\* C34: once a reset-audio or a reset-all has been handled while an audio
\* job streams, the transcript is empty, and what that job does next (a
\* chunk, the end of its stream, its fallback answer) neither changes the
\* transcript nor adds a history entry.
C34_ResetDetachesAudioJob ==
  [][ (AudioResetHandled /\ AudioStreaming) =>
        /\ streamingResponse = <<>>
        /\ last'.op \in {"audioChunk", "audioStreamEnd", "audioFallback"}
             => (streamingResponse' = <<>> /\ history' = history)
    ]_vars

=============================================================================
